---- MODULE Spec2Model ----
(***************************************************************************)
(* Model of the botwars game session (server/models/game_instance.js):     *)
(* registration, connection, moves, the move timer and the event history   *)
(* of one GameInstance.  Every handler runs to completion on the single    *)
(* JavaScript thread, so each operation is one atomic action; the steps    *)
(* it takes inside (emits, timer calls, calls into the game) are recorded  *)
(* in order in the observation variable `trace`.                           *)
(***************************************************************************)
EXTENDS Integers, Sequences, FiniteSets, TLC

\* ---- bounds of the model ------------------------------------------------
MaxPlayers == 2     \* game.getPlayerCount() and player arguments range over 0..MaxPlayers
MaxChanges == 2     \* at most this many state changes of the game (moves, timeouts)
MaxElapsed == 1     \* think times reported by the move timer range over 0..MaxElapsed

\* ---- GameStatus (game_instance.js:7-12) ----------------------------------
NOT_STARTED == "not_started"
STARTED == "started"
ENDED == "ended"
ERROR == "error"
GameStatus == {NOT_STARTED, STARTED, ENDED, ERROR}

\* payloads a client may send as a move; the game refuses "bad".
\* A player argument of 0 stands for a falsy one (undefined, 0).
PlayerArgs == 0..MaxPlayers

Moves == {"m1", "bad"}

\* this.id, the identifier the registry gave the instance
GameId == "game-1"

VARIABLES
  status,               \* this.status
  currentPlayerCount,   \* this.currentPlayerCount
  connectedPlayerCount, \* this.connectedPlayerCount
  playerTokenTable,     \* this.playerTokenTable: token -> player; token i is the i-th issued
  playerState,          \* this.playerState: player -> [connectedOnce]
  history,              \* this.history: [events, next]; next is <<>> (null) or <<fullState>>
  moveTimer,            \* this.moveTimer
  game,                 \* this.game, the injected rules module
  trace,                \* steps of the last operation, in order
  lastOp,               \* the last operation, its arguments and its result
  pre,                  \* the session's fields as the last operation found them
  statusTrail,          \* every value assigned to this.status, in order
  armedTurn,            \* game.ver when the move timer was last started
  emitCount             \* how often "start" and "end" were emitted so far

vars == <<status, currentPlayerCount, connectedPlayerCount, playerTokenTable,
          playerState, history, moveTimer, game, trace, lastOp, pre,
          statusTrail, armedTurn, emitCount>>

\* the fields of the session proper (what an operation may mutate)
core == <<status, currentPlayerCount, connectedPlayerCount, playerTokenTable,
          playerState, history, moveTimer, game>>

CoreRec ==
  [status |-> status, currentPlayerCount |-> currentPlayerCount,
   connectedPlayerCount |-> connectedPlayerCount, playerTokenTable |-> playerTokenTable,
   playerState |-> playerState, history |-> history, moveTimer |-> moveTimer,
   game |-> game]

\* ---- the rules module (this.game) -----------------------------------------
\* game = [playerCount, next, ended, error, ver]; ver counts its state changes.
\* isError() is consulted only once isEnded() holds, so error is kept FALSE
\* until then.
MoveTimeLimit == 1

GetPlayerCount(g) == g.playerCount

GetNextPlayer(g) == g.next

GameIsEnded(g) == g.ended

GameIsError(g) == g.error

GetMoveTimeLimit(g) == MoveTimeLimit

\* what a viewer may see of a full state: the model's games show a player
\* whether it is their turn and hide who else is to move; a null viewer (0)
\* sees the full state
GetStateView(fullState, viewer) ==
  IF viewer = 0 THEN fullState
  ELSE [ver |-> fullState.ver, ended |-> fullState.ended, error |-> fullState.error,
        yourTurn |-> (fullState.next = viewer)]

\* the parameters the game was created with are not looked into
GetParams(g) == [players |-> g.playerCount]

\* the winner the game names once it has ended, 0 (null) before; the model's
\* games name the player who was to move
GetWinner(g) == IF g.ended /\ ~g.error THEN g.next ELSE 0

GetFullState(g) == [ver |-> g.ver, next |-> g.next, ended |-> g.ended, error |-> g.error]

IsValidMove(g, player, move) == player = g.next /\ move # "bad"

\* the states a game may be in after one more change (a move or a timeout effect)
GameOutcomes(g) ==
  { [g EXCEPT !.ver = g.ver + 1, !.next = n, !.ended = f[1], !.error = f[2]] :
      n \in 1..g.playerCount,
      f \in {<<FALSE, FALSE>>, <<TRUE, FALSE>>, <<TRUE, TRUE>>} }

InitialGames ==
  { g \in { [playerCount |-> n, next |-> p, ended |-> f[1], error |-> f[2], ver |-> 0] :
               n \in 0..MaxPlayers, p \in 1..MaxPlayers,
               f \in {<<FALSE, FALSE>>, <<TRUE, FALSE>>, <<TRUE, TRUE>>} } :
      g.next <= g.playerCount \/ g.next = 1 }

\* ---- the move timer (utils/timer) -------------------------------------------
\* moveTimer = [pending, running]: pending is a scheduled fire, running says
\* the clock has been started and not stopped since.  The time that has
\* passed on a running clock is an input of the environment.
NewTimer == [pending |-> FALSE, running |-> FALSE]

TimerStart(t) == [pending |-> TRUE, running |-> TRUE]

\* the values stop() may return
TimerElapsed(t) == IF t.running THEN 0..MaxElapsed ELSE {0}

TimerStop(t) == [pending |-> FALSE, running |-> FALSE]

TimerFired(t) == [t EXCEPT !.pending = FALSE]

\* ---- the session record threaded through one operation ----------------------
Session ==
  [status |-> status, history |-> history, moveTimer |-> moveTimer, game |-> game,
   trace |-> <<>>, statusTrail |-> statusTrail, armedTurn |-> armedTurn,
   emitCount |-> emitCount]

\* a step is recorded with the status and the timer as the step finds them
Step(s, name, player, move, time) ==
  [s EXCEPT !.trace = Append(@, [step |-> name, player |-> player, move |-> move,
                                 time |-> time, status |-> s.status,
                                 pending |-> s.moveTimer.pending])]

SetStatus(s, st) == [s EXCEPT !.status = st, !.statusTrail = Append(@, st)]

\* ---- history listeners (constructor) ----------------------------------------
HistoryOnStateReplace(h, fullState) == [events |-> h.events, next |-> <<fullState>>]

\* listener of "start" and "stateChange"; deepcopy of a value is that value
HistoryOnState(h, fullState) ==
  [events |-> IF h.next # <<>>
                THEN Append(h.events, [eventType |-> "state", fullState |-> h.next[1]])
                ELSE h.events,
   next |-> <<fullState>>]

HistoryOnMoveDropsPending(h, player, move) ==
  [events |-> Append(h.events, [eventType |-> "move", player |-> player, move |-> move]),
   next |-> <<>>]

\* listener of "move"
HistoryOnMove(h, player, move) ==
  LET flushed == IF h.next # <<>>
                   THEN Append(h.events, [eventType |-> "state", fullState |-> h.next[1]])
                   ELSE h.events
  IN [events |-> Append(flushed, [eventType |-> "move", player |-> player, move |-> move]),
      next |-> <<>>]

\* the state listener is registered for start only
EmitRecordsStartOnly(s, name, player, move) ==
  LET s1 == Step(s, name, player, move, 0)
      s2 == IF name \in {"start", "end"}
              THEN [s1 EXCEPT !.emitCount[name] = @ + 1] ELSE s1
  IN CASE name = "start" ->
            [s2 EXCEPT !.history = HistoryOnState(s.history, GetFullState(s.game))]
       [] name = "move" ->
            [s2 EXCEPT !.history = HistoryOnMove(s.history, player, move)]
       [] OTHER -> s2

\* this.emit(name, ...): the session's own listeners run, then the subscribers'
Emit(s, name, player, move) ==
  LET s1 == Step(s, name, player, move, 0)
      s2 == IF name \in {"start", "end"}
              THEN [s1 EXCEPT !.emitCount[name] = @ + 1] ELSE s1
  IN CASE name \in {"start", "stateChange"} ->
            [s2 EXCEPT !.history = HistoryOnState(s.history, GetFullState(s.game))]
       [] name = "move" ->
            [s2 EXCEPT !.history = HistoryOnMove(s.history, player, move)]
       [] OTHER -> s2

\* ---- GameInstance methods -------------------------------------------------
HasStartedAlways(st) == TRUE

HasStartedRunning(st) == st = STARTED

HasStarted(st) == st # NOT_STARTED

EndStatusEnded(g) == ENDED

EndStatus(g) == IF GameIsError(g) THEN ERROR ELSE ENDED

OnStateChangeEmitsEndFirst(s, announceState, announceMove) ==
  IF ~GameIsEnded(s.game)
    THEN LET s1 == IF announceState THEN Emit(s, "stateChange", 0, "none") ELSE s
             s2 == IF announceMove
                     THEN Emit(s1, "waitingForMove", GetNextPlayer(s.game), "none")
                     ELSE s1
             s3 == Step(s2, "timer.start", GetNextPlayer(s.game), "none",
                        GetMoveTimeLimit(s.game))
         IN [s3 EXCEPT !.moveTimer = TimerStart(s2.moveTimer), !.armedTurn = s.game.ver]
    ELSE SetStatus(Emit(s, "end", 0, "none"), EndStatus(s.game))

\* status is left as it is when the game has ended
OnStateChangeKeepsStatus(s, announceState, announceMove) ==
  IF ~GameIsEnded(s.game)
    THEN LET s1 == IF announceState THEN Emit(s, "stateChange", 0, "none") ELSE s
             s2 == IF announceMove
                     THEN Emit(s1, "waitingForMove", GetNextPlayer(s.game), "none")
                     ELSE s1
             s3 == Step(s2, "timer.start", GetNextPlayer(s.game), "none",
                        GetMoveTimeLimit(s.game))
         IN [s3 EXCEPT !.moveTimer = TimerStart(s2.moveTimer), !.armedTurn = s.game.ver]
    ELSE Emit(s, "end", 0, "none")

OnStateChange(s, announceState, announceMove) ==
  IF ~GameIsEnded(s.game)
    THEN LET s1 == IF announceState THEN Emit(s, "stateChange", 0, "none") ELSE s
             s2 == IF announceMove
                     THEN Emit(s1, "waitingForMove", GetNextPlayer(s.game), "none")
                     ELSE s1
             s3 == Step(s2, "timer.start", GetNextPlayer(s.game), "none",
                        GetMoveTimeLimit(s.game))
         IN [s3 EXCEPT !.moveTimer = TimerStart(s2.moveTimer), !.armedTurn = s.game.ver]
    ELSE Emit(SetStatus(s, EndStatus(s.game)), "end", 0, "none")

\* the part of the state an operation's run leaves behind
Commit(s, op) ==
  /\ status' = s.status
  /\ history' = s.history
  /\ moveTimer' = s.moveTimer
  /\ game' = s.game
  /\ trace' = s.trace
  /\ statusTrail' = s.statusTrail
  /\ armedTurn' = s.armedTurn
  /\ emitCount' = s.emitCount
  /\ lastOp' = op
  /\ pre' = CoreRec

Op(name, player, move, result) ==
  [op |-> name, player |-> player, move |-> move, result |-> result]

\* an operation that returns (or throws) before touching anything
NoEffect(op) ==
  /\ UNCHANGED core
  /\ UNCHANGED <<statusTrail, armedTurn, emitCount>>
  /\ trace' = <<>>
  /\ lastOp' = op
  /\ pre' = CoreRec

\* -- registerNewPlayer(player) --
Registered == DOMAIN playerState

RegisterFailsTakenOnly(player) == player # 0 /\ player \in Registered

RegisterFails(player) ==
  \/ player # 0 /\ player \in Registered
  \/ currentPlayerCount = GetPlayerCount(game)

LowestFreeSlot == CHOOSE p \in 1..(Cardinality(Registered) + 1) :
                    /\ p \notin Registered
                    /\ \A q \in 1..(p - 1) : q \in Registered

RegisterNewPlayer(player) ==
  IF RegisterFails(player)
    THEN NoEffect(Op("registerNewPlayer", player, "none", "null"))
    ELSE LET p == IF player = 0 THEN LowestFreeSlot ELSE player
         IN /\ currentPlayerCount' = currentPlayerCount + 1
            /\ playerTokenTable' = Append(playerTokenTable, p)
            /\ playerState' = playerState @@ (p :> [connectedOnce |-> FALSE])
            /\ UNCHANGED <<status, connectedPlayerCount, history, moveTimer, game,
                           statusTrail, armedTurn, emitCount>>
            /\ trace' = <<>>
            /\ lastOp' = [op |-> "registerNewPlayer", player |-> player, move |-> "none",
                          result |-> "registered", retPlayer |-> p,
                          retToken |-> Len(playerTokenTable) + 1]
            /\ pre' = CoreRec

\* -- getPlayer(playerToken) --
GetPlayer(playerToken) ==
  IF playerToken \in DOMAIN playerTokenTable THEN playerTokenTable[playerToken] ELSE 0

\* -- connect(player) --
AlreadyConnectedNever(player) == FALSE

AlreadyConnected(player) == playerState[player].connectedOnce

ShouldStartAllRegistered(st, connected, g) ==
  ~HasStarted(st) /\ connected = currentPlayerCount

ShouldStart(st, connected, g) == ~HasStarted(st) /\ connected = GetPlayerCount(g)

Connect(player) ==
  IF player \notin Registered
    THEN \* this.playerState[player] is undefined: reading .connectedOnce throws
         NoEffect(Op("connect", player, "none", "TypeError"))
    ELSE IF AlreadyConnected(player)
      THEN NoEffect(Op("connect", player, "none", "undefined"))
      ELSE /\ connectedPlayerCount' = connectedPlayerCount + 1
           /\ playerState' = [playerState EXCEPT ![player].connectedOnce = TRUE]
           /\ UNCHANGED <<currentPlayerCount, playerTokenTable>>
           /\ IF ShouldStart(status, connectedPlayerCount + 1, game)
                THEN LET s1 == SetStatus(Session, STARTED)
                         s2 == Emit(s1, "start", 0, "none")
                     IN Commit(OnStateChange(s2, FALSE, TRUE),
                               Op("connect", player, "none", "undefined"))
                ELSE Commit(Session, Op("connect", player, "none", "undefined"))

\* -- move(player, move) --
MoveRejectedEndedOnly(g, player, move) == GameIsEnded(g)

MoveRejectedInvalidOnly(g, player, move) == ~IsValidMove(g, player, move)

MoveRejected(g, player, move) == GameIsEnded(g) \/ ~IsValidMove(g, player, move)

\* the timer is left alone until _onStateChange restarts it
MoveNeverStopsTimer(player, move) ==
  IF ~HasStarted(status)
    THEN NoEffect(Op("move", player, move, "null"))
    ELSE IF MoveRejected(game, player, move)
      THEN NoEffect(Op("move", player, move, "false"))
      ELSE /\ game.ver < MaxChanges
           /\ \E g2 \in GameOutcomes(game) :
                LET s2 == [Step(Session, "game.move", player, move, 0)
                             EXCEPT !.game = g2]
                    s3 == Emit(s2, "move", player, move)
                IN Commit(OnStateChange(s3, TRUE, TRUE), Op("move", player, move, "true"))
           /\ UNCHANGED <<currentPlayerCount, connectedPlayerCount, playerTokenTable,
                          playerState>>

\* the game is handed the move while the timer still runs
MoveStopsTimerLate(player, move) ==
  IF ~HasStarted(status)
    THEN NoEffect(Op("move", player, move, "null"))
    ELSE IF MoveRejected(game, player, move)
      THEN NoEffect(Op("move", player, move, "false"))
      ELSE /\ game.ver < MaxChanges
           /\ \E g2 \in GameOutcomes(game), moveTime \in TimerElapsed(moveTimer) :
                LET s1 == [Step(Session, "game.move", player, move, moveTime)
                             EXCEPT !.game = g2]
                    s2 == [Step(s1, "timer.stop", 0, "none", moveTime)
                             EXCEPT !.moveTimer = TimerStop(moveTimer)]
                    s3 == Emit(s2, "move", player, move)
                IN Commit(OnStateChange(s3, TRUE, TRUE), Op("move", player, move, "true"))
           /\ UNCHANGED <<currentPlayerCount, connectedPlayerCount, playerTokenTable,
                          playerState>>

Move(player, move) ==
  IF ~HasStarted(status)
    THEN NoEffect(Op("move", player, move, "null"))
    ELSE IF MoveRejected(game, player, move)
      THEN NoEffect(Op("move", player, move, "false"))
      ELSE /\ game.ver < MaxChanges
           /\ \E g2 \in GameOutcomes(game), moveTime \in TimerElapsed(moveTimer) :
                LET s1 == [Step(Session, "timer.stop", 0, "none", moveTime)
                             EXCEPT !.moveTimer = TimerStop(moveTimer)]
                    s2 == [Step(s1, "game.move", player, move, moveTime)
                             EXCEPT !.game = g2]
                    s3 == Emit(s2, "move", player, move)
                IN Commit(OnStateChange(s3, TRUE, TRUE), Op("move", player, move, "true"))
           /\ UNCHANGED <<currentPlayerCount, connectedPlayerCount, playerTokenTable,
                          playerState>>

\* -- _onMoveTimeout(), the callback of the move timer --
AnnounceMoveAlways(oldNextPlayer, nextPlayer) == TRUE

AnnounceMoveNever(oldNextPlayer, nextPlayer) == FALSE

AnnounceMoveOnTimeout(oldNextPlayer, nextPlayer) == nextPlayer # oldNextPlayer

\* the timer is restarted whatever game.onMoveTimeout() returns
OnMoveTimeoutRestarts ==
  /\ moveTimer.pending
  /\ LET oldNextPlayer == GetNextPlayer(game)
         s0 == [Session EXCEPT !.moveTimer = TimerFired(moveTimer)]
         s1 == Step(s0, "game.onMoveTimeout", oldNextPlayer, "none", 0)
     IN \/ Commit(OnStateChange(s1, FALSE, FALSE), Op("onMoveTimeout", 0, "none", "false"))
        \/ /\ game.ver < MaxChanges
           /\ \E g2 \in GameOutcomes(game) :
                LET s2 == [s1 EXCEPT !.game = g2]
                IN Commit(OnStateChange(s2, TRUE,
                                        AnnounceMoveOnTimeout(oldNextPlayer, GetNextPlayer(g2))),
                          Op("onMoveTimeout", 0, "none", "true"))
  /\ UNCHANGED <<currentPlayerCount, connectedPlayerCount, playerTokenTable, playerState>>

OnMoveTimeout ==
  /\ moveTimer.pending
  /\ LET oldNextPlayer == GetNextPlayer(game)
         s0 == [Session EXCEPT !.moveTimer = TimerFired(moveTimer)]
         s1 == Step(s0, "game.onMoveTimeout", oldNextPlayer, "none", 0)
     IN \/ \* game.onMoveTimeout() returns false: nothing changed
           Commit(s1, Op("onMoveTimeout", 0, "none", "false"))
        \/ \* game.onMoveTimeout() returns true after changing the game
           /\ game.ver < MaxChanges
           /\ \E g2 \in GameOutcomes(game) :
                LET s2 == [s1 EXCEPT !.game = g2]
                IN Commit(OnStateChange(s2, TRUE,
                                        AnnounceMoveOnTimeout(oldNextPlayer, GetNextPlayer(g2))),
                          Op("onMoveTimeout", 0, "none", "true"))
  /\ UNCHANGED <<currentPlayerCount, connectedPlayerCount, playerTokenTable, playerState>>

\* -- getNextPlayer(), getWinner(): null (0) before the start --
SessionNextPlayer == IF HasStarted(status) THEN GetNextPlayer(game) ELSE 0

SessionWinner == IF HasStarted(status) THEN GetWinner(game) ELSE 0

\* -- getInfo(): an object whose keys depend on status --
InfoHasWinnerWhenOver(st) == st \in {ENDED, ERROR}

InfoHasNextPlayer(st) == st = STARTED

InfoHasWinner(st) == st = ENDED

GetInfo ==
  LET keys == {"gameId", "params", "connectedPlayers", "players", "status"}
                \cup (IF InfoHasNextPlayer(status) THEN {"nextPlayer"} ELSE {})
                \cup (IF InfoHasWinner(status) THEN {"winner"} ELSE {})
  IN [k \in keys |->
        CASE k = "gameId" -> GameId
          [] k = "params" -> GetParams(game)
          [] k = "connectedPlayers" -> connectedPlayerCount
          [] k = "players" -> GetPlayerCount(game)
          [] k = "status" -> status
          [] k = "nextPlayer" -> SessionNextPlayer
          [] k = "winner" -> SessionWinner]

\* -- getHistory(player): the array returned --
GetHistoryResult(player) ==
  [i \in 1..Len(history.events) |->
     IF history.events[i].eventType = "move" THEN history.events[i]
     ELSE [eventType |-> "state",
           state |-> GetStateView(history.events[i].fullState, player)]]

\* the viewers getHistory is asked for: nobody (0) and a player
Viewers == {0, MaxPlayers}

GetHistory(player) ==
  /\ UNCHANGED core
  /\ UNCHANGED <<statusTrail, armedTurn, emitCount>>
  /\ trace' = <<>>
  /\ lastOp' = [op |-> "getHistory", player |-> player, move |-> "none",
                result |-> "array", ret |-> GetHistoryResult(player)]
  /\ pre' = CoreRec

\* -- POST /:gameId/move (routes/game_route.js): the response, given the
\* status the request finds and what game.move would return --
PostMoveResponse(st, result) ==
  IF ~HasStarted(st) THEN "400 Game has not started yet"
  ELSE IF result = "true" THEN "200 OK"
  ELSE "400 Illegal move"

\* ---- the specification ------------------------------------------------------
Init ==
  /\ status = NOT_STARTED
  /\ currentPlayerCount = 0
  /\ connectedPlayerCount = 0
  /\ playerTokenTable = <<>>
  /\ playerState = <<>>
  /\ history = [events |-> <<>>, next |-> <<>>]
  /\ moveTimer = NewTimer
  /\ game \in InitialGames
  /\ trace = <<>>
  /\ lastOp = Op("new", 0, "none", "undefined")
  /\ pre = CoreRec
  /\ statusTrail = <<NOT_STARTED>>
  /\ armedTurn = 0
  /\ emitCount = [start |-> 0, end |-> 0]

Next ==
  \/ \E player \in PlayerArgs : RegisterNewPlayer(player)
  \/ \E player \in PlayerArgs : Connect(player)
  \/ \E player \in PlayerArgs, move \in Moves : Move(player, move)
  \/ OnMoveTimeout
  \/ \E player \in Viewers : GetHistory(player)

Spec == Init /\ [][Next]_vars

\* ---- observations used by the properties -----------------------------------
StepNames(tr) == [i \in 1..Len(tr) |-> tr[i].step]

ConnectedPlayers == { p \in Registered : playerState[p].connectedOnce }

Terminal == {ENDED, ERROR}

\* the last operation was the connect call that first made
\* connectedPlayerCount equal the game's player count
StartingConnect ==
  /\ lastOp.op = "connect"
  /\ connectedPlayerCount = pre.connectedPlayerCount + 1
  /\ connectedPlayerCount = GetPlayerCount(game)

\* the last operation left every field of the session as it found it
CoreUnchanged == CoreRec = pre

Emitted(name) == \E i \in 1..Len(trace) : trace[i].step = name

\* ---- C1 -------------------------------------------------------------------
\* C1: the values assigned to status, in order, are always a prefix of
\* NOT_STARTED, STARTED, ENDED or of NOT_STARTED, STARTED, ERROR: status never
\* goes back, never moves between ENDED and ERROR, and is never ENDED or
\* ERROR without having been STARTED.
C1_StatusMonotonic ==
  /\ status = statusTrail[Len(statusTrail)]
  /\ statusTrail \in { <<NOT_STARTED>>, <<NOT_STARTED, STARTED>>,
                       <<NOT_STARTED, STARTED, ENDED>>, <<NOT_STARTED, STARTED, ERROR>> }

C1_Witness ==
  /\ statusTrail = <<NOT_STARTED, STARTED, ERROR>>
  /\ lastOp.op = "onMoveTimeout"
  /\ Len(history.events) >= 2

\* ---- C2 -------------------------------------------------------------------
\* C2: a connect that is not the one making connectedPlayerCount reach the
\* player count leaves status alone and emits nothing; the one that does sets
\* status STARTED, emits start once, no stateChange, then
\* waitingForMove(next player) and starts the move timer (start then end when
\* the game reports it has already ended); start is emitted by no other
\* operation and never twice.
C2_StartOnLastConnect ==
  /\ emitCount.start <= 1
  /\ Emitted("start") => StartingConnect
  /\ (lastOp.op = "connect" /\ ~StartingConnect) =>
        /\ status = pre.status
        /\ trace = <<>>
  /\ StartingConnect =>
        /\ pre.status = NOT_STARTED
        /\ emitCount.start = 1
        /\ statusTrail[2] = STARTED
        /\ trace[1].step = "start" /\ trace[1].status = STARTED
        /\ ~GameIsEnded(game) =>
              /\ status = STARTED
              /\ StepNames(trace) = <<"start", "waitingForMove", "timer.start">>
              /\ trace[2].player = GetNextPlayer(game)
              /\ trace[3].player = GetNextPlayer(game)
              /\ moveTimer.pending
        /\ GameIsEnded(game) =>
              /\ status \in Terminal
              /\ StepNames(trace) = <<"start", "end">>
              /\ ~moveTimer.pending

C2_Witness ==
  /\ StartingConnect
  /\ status = STARTED
  /\ GetPlayerCount(game) = 2
  /\ StepNames(trace) = <<"start", "waitingForMove", "timer.start">>
  /\ emitCount.start = 1

\* ---- C3 -------------------------------------------------------------------
\* C3: connect(p) for a player p that has connected before changes nothing of
\* the session and emits nothing, and connectedPlayerCount is always the
\* number of distinct players that have connected.
RepeatedConnect ==
  /\ lastOp.op = "connect"
  /\ lastOp.player \in DOMAIN pre.playerState
  /\ pre.playerState[lastOp.player].connectedOnce

C3_ConnectIdempotent ==
  /\ connectedPlayerCount = Cardinality(ConnectedPlayers)
  /\ RepeatedConnect => CoreUnchanged /\ trace = <<>>

C3_Witness ==
  /\ RepeatedConnect
  /\ trace = <<>>
  /\ status = STARTED
  /\ connectedPlayerCount = 2

\* ---- C4 -------------------------------------------------------------------
\* C4: 0 <= connectedPlayerCount <= currentPlayerCount <= player count in
\* every state, and registerNewPlayer returns null, changing nothing, whenever
\* the requested slot is registered or currentPlayerCount equals the player
\* count.
C4_RegistrationBound ==
  /\ 0 <= connectedPlayerCount
  /\ connectedPlayerCount <= currentPlayerCount
  /\ currentPlayerCount <= GetPlayerCount(game)
  /\ ( /\ lastOp.op = "registerNewPlayer"
       /\ \/ lastOp.player \in DOMAIN pre.playerState
          \/ pre.currentPlayerCount = GetPlayerCount(pre.game) ) =>
        /\ lastOp.result = "null"
        /\ CoreUnchanged
        /\ trace = <<>>

C4_Witness ==
  /\ lastOp.op = "registerNewPlayer"
  /\ lastOp.player = 0
  /\ lastOp.result = "null"
  /\ pre.currentPlayerCount = 2
  /\ GetPlayerCount(game) = 2

\* ---- C5 -------------------------------------------------------------------
IsSnapshot(e) == e.eventType = "state"

IsMoveRecord(e) == e.eventType = "move"

Snapshot(fullState) == [eventType |-> "state", fullState |-> fullState]

\* the last operation recorded a state transition (start or stateChange)
\* while a snapshot was pending
RecordedOverPending ==
  /\ pre.history.next # <<>>
  /\ Emitted("start") \/ Emitted("stateChange")
  /\ ~Emitted("move")

InvalidMoveAfterStart ==
  /\ lastOp.op = "move"
  /\ HasStarted(pre.status)
  /\ ~IsValidMove(pre.game, lastOp.player, lastOp.move)

\* C6: a move after the start that the game reports invalid returns false,
\* emits nothing and leaves status, game, history and move timer as they were
\* (a pending timer stays pending and is not restarted).
C6_InvalidMoveNoEffect ==
  InvalidMoveAfterStart =>
    /\ lastOp.result = "false"
    /\ trace = <<>>
    /\ CoreUnchanged

C6_Witness ==
  /\ InvalidMoveAfterStart
  /\ status = STARTED
  /\ lastOp.player \in Registered
  /\ lastOp.player # GetNextPlayer(game)
  /\ lastOp.move = "m1"
  /\ pre.moveTimer.pending /\ moveTimer.pending
  /\ Len(history.events) > 0

\* ---- C7 -------------------------------------------------------------------
\* the last operation was a valid move after which the game reports the end
EndingMove ==
  /\ lastOp.op = "move"
  /\ HasStarted(pre.status)
  /\ ~MoveRejected(pre.game, lastOp.player, lastOp.move)
  /\ GameIsEnded(game)

\* C7: a valid move after which the game has ended returns true, stops the
\* timer, emits move(player, move) and then end and nothing else, sets status
\* to ERROR if the game's error flag is set and to ENDED otherwise (before end
\* is emitted), and leaves no timer pending.
C7_EndingMove ==
  EndingMove =>
    /\ lastOp.result = "true"
    /\ StepNames(trace) = <<"timer.stop", "game.move", "move", "end">>
    /\ trace[3].player = lastOp.player /\ trace[3].move = lastOp.move
    /\ status = (IF GameIsError(game) THEN ERROR ELSE ENDED)
    /\ trace[4].status = status
    /\ ~moveTimer.pending

C7_Witness ==
  /\ EndingMove
  /\ status = ERROR
  /\ pre.moveTimer.pending
  /\ lastOp.player = 2

\* ---- C8 -------------------------------------------------------------------
\* C8: an operation that finds status ENDED or ERROR changes no field of the
\* session and emits nothing, no timer fire happens then, and no timer is
\* pending while status is ENDED or ERROR.
C8_TerminalFrozen ==
  /\ pre.status \in Terminal =>
        /\ CoreUnchanged
        /\ trace = <<>>
        /\ lastOp.op # "onMoveTimeout"
  /\ status \in Terminal => ~moveTimer.pending

C8_Witness ==
  /\ pre.status = ENDED
  /\ lastOp.op = "move"
  /\ lastOp.move = "m1"
  /\ lastOp.player = GetNextPlayer(game)
  /\ lastOp.player \in Registered
  /\ lastOp.result = "false"

\* ---- C9 -------------------------------------------------------------------
\* the last operation was a timer fire whose effect changed the game without
\* ending it
ChangingTimeout ==
  /\ lastOp.op = "onMoveTimeout"
  /\ lastOp.result = "true"
  /\ ~GameIsEnded(game)

\* C9: after a timer fire whose effect changed the game without ending it,
\* stateChange was emitted and the timer restarted; waitingForMove was
\* emitted, with the new next player, exactly when the next player differs
\* from the one before the timeout.
C9_TimeoutAnnouncement ==
  ChangingTimeout =>
    /\ moveTimer.pending
    /\ trace[1].player = GetNextPlayer(pre.game)
    /\ IF GetNextPlayer(game) = GetNextPlayer(pre.game)
         THEN StepNames(trace) = <<"game.onMoveTimeout", "stateChange", "timer.start">>
         ELSE /\ StepNames(trace) =
                   <<"game.onMoveTimeout", "stateChange", "waitingForMove", "timer.start">>
              /\ trace[3].player = GetNextPlayer(game)

C9_Witness ==
  /\ ChangingTimeout
  /\ GetNextPlayer(game) = GetNextPlayer(pre.game)
  /\ game # pre.game
  /\ ~Emitted("waitingForMove")
  /\ moveTimer.pending

\* ---- C10 ------------------------------------------------------------------
\* the step of the last operation that started the timer, 0 if none
TimerStartAt ==
  IF Emitted("timer.start") THEN CHOOSE i \in 1..Len(trace) : trace[i].step = "timer.start"
  ELSE 0

AnnouncedBeforeTimerStart ==
  /\ TimerStartAt > 1
  /\ trace[TimerStartAt - 1].step = "waitingForMove"
  /\ trace[TimerStartAt - 1].player = trace[TimerStartAt].player

\* C10 as stated: every operation that starts the move timer for a player
\* also emits waitingForMove carrying that player.
C10_AlwaysAnnounced == Emitted("timer.start") => AnnouncedBeforeTimerStart

\* C10 (amended): an operation that starts the move timer emits
\* waitingForMove carrying the next player right before, except a timer fire
\* that left the next player unchanged, which restarts the timer and emits no
\* waitingForMove; waitingForMove is emitted by no operation that does not
\* start the timer.
C10_AnnouncedUnlessSamePlayer ==
  /\ Emitted("timer.start") =>
        /\ trace[TimerStartAt].player = GetNextPlayer(game)
        /\ IF lastOp.op = "onMoveTimeout" /\ GetNextPlayer(game) = GetNextPlayer(pre.game)
             THEN ~Emitted("waitingForMove")
             ELSE AnnouncedBeforeTimerStart
  /\ Emitted("waitingForMove") => Emitted("timer.start")

C10_Witness ==
  /\ lastOp.op = "onMoveTimeout"
  /\ GetNextPlayer(game) # GetNextPlayer(pre.game)
  /\ AnnouncedBeforeTimerStart
  /\ moveTimer.pending

\* ---- C11 ------------------------------------------------------------------
\* the step of the last operation that emitted end, 0 if none
EndAt ==
  IF Emitted("end") THEN CHOOSE i \in 1..Len(trace) : trace[i].step = "end" ELSE 0

\* the last operation is the one after which the game first reports its end
\* to a started session: a move or timeout effect that ended it, or the
\* starting connect of a game that had ended before
FirstSeesEnd ==
  /\ GameIsEnded(game)
  /\ HasStarted(status)
  /\ ~GameIsEnded(pre.game) \/ ~HasStarted(pre.status)

\* C11: end is emitted once, by the operation after which the game first
\* reports its end (move, timeout effect or starting connect) and by no other,
\* never twice; when end is emitted status is already ERROR if the game's
\* error flag is set and ENDED otherwise.
C11_EndOnce ==
  /\ emitCount.end <= 1
  /\ emitCount.end = 1 <=> (HasStarted(status) /\ GameIsEnded(game))
  /\ Emitted("end") <=> FirstSeesEnd
  /\ Emitted("end") =>
        /\ EndAt = Len(trace)
        /\ trace[EndAt].status = (IF GameIsError(game) THEN ERROR ELSE ENDED)
        /\ trace[EndAt].status = status
        /\ lastOp.op \in {"move", "onMoveTimeout", "connect"}

C11_Witness ==
  /\ Emitted("end")
  /\ lastOp.op = "onMoveTimeout"
  /\ status = ERROR
  /\ trace[EndAt].status = ERROR
  /\ emitCount.end = 1

\* ---- C12 ------------------------------------------------------------------
\* the last operation was a move that went through moveTimer.stop, game.move
\* and the emit of move
MoveApplied ==
  /\ lastOp.op = "move"
  /\ Len(trace) >= 3
  /\ StepNames(SubSeq(trace, 1, 3)) = <<"timer.stop", "game.move", "move">>
  /\ trace[2].player = lastOp.player /\ trace[2].move = lastOp.move
  /\ game.ver = pre.game.ver + 1

\* C12: a move made while status is NOT_STARTED returns null whatever the
\* game would say of it, emits nothing and changes nothing; once started, a
\* move that is rejected (invalid, or the game has ended) returns false; a
\* move returns true exactly when it was applied to the game.
C12_MoveResults ==
  lastOp.op = "move" =>
    /\ lastOp.result \in {"null", "false", "true"}
    /\ lastOp.result = "null" <=> pre.status = NOT_STARTED
    /\ lastOp.result = "null" => CoreUnchanged /\ trace = <<>>
    /\ (HasStarted(pre.status) /\ MoveRejected(pre.game, lastOp.player, lastOp.move))
          => lastOp.result = "false"
    /\ lastOp.result = "false" => CoreUnchanged /\ trace = <<>>
    /\ lastOp.result = "true" <=> MoveApplied
    /\ PostMoveResponse(pre.status, lastOp.result) =
          CASE lastOp.result = "null" -> "400 Game has not started yet"
            [] lastOp.result = "false" -> "400 Illegal move"
            [] lastOp.result = "true" -> "200 OK"

C12_Witness ==
  /\ lastOp.op = "move"
  /\ lastOp.result = "null"
  /\ lastOp.player \in Registered
  /\ IsValidMove(game, lastOp.player, lastOp.move)
  /\ ~GameIsEnded(game)
  /\ connectedPlayerCount = 1

\* ---- C13 ------------------------------------------------------------------
\* C13 as stated: the summary has nextPlayer exactly when status is STARTED
\* and winner exactly when status is ENDED or ERROR, and its counts are those
\* of the session.
C13_SummaryKeys ==
  /\ "nextPlayer" \in DOMAIN GetInfo <=> status = STARTED
  /\ "winner" \in DOMAIN GetInfo <=> status \in {ENDED, ERROR}
  /\ GetInfo["connectedPlayers"] = connectedPlayerCount
  /\ GetInfo["players"] = GetPlayerCount(game)

\* C13 (amended): the summary has nextPlayer exactly when status is STARTED
\* and winner exactly when status is ENDED; with status NOT_STARTED or ERROR
\* it has neither; connectedPlayers and players are connectedPlayerCount and
\* the game's player count.
C13_SummaryKeysEndedOnly ==
  /\ "nextPlayer" \in DOMAIN GetInfo <=> status = STARTED
  /\ "winner" \in DOMAIN GetInfo <=> status = ENDED
  /\ status \in {NOT_STARTED, ERROR} =>
        DOMAIN GetInfo = {"gameId", "params", "connectedPlayers", "players", "status"}
  /\ "nextPlayer" \in DOMAIN GetInfo => GetInfo["nextPlayer"] = GetNextPlayer(game)
  /\ "winner" \in DOMAIN GetInfo => GetInfo["winner"] = GetWinner(game)
  /\ GetInfo["status"] = status
  /\ GetInfo["connectedPlayers"] = connectedPlayerCount
  /\ GetInfo["players"] = GetPlayerCount(game)

C13_Witness ==
  /\ status = ERROR
  /\ "winner" \notin DOMAIN GetInfo
  /\ "nextPlayer" \notin DOMAIN GetInfo
  /\ GetInfo["connectedPlayers"] = 2
  /\ lastOp.op = "move"

\* ---- C14 ------------------------------------------------------------------
\* the last operation was a move that returned true and left the game going
NonEndingMove ==
  /\ lastOp.op = "move"
  /\ lastOp.result = "true"
  /\ ~GameIsEnded(game)

\* C14: a successful move that does not end the game stops the timer, hands
\* the move and the time stop() returned to the game, emits move, then
\* stateChange, then waitingForMove(next player), then restarts the timer, in
\* this order; no fire is pending from the stop until the restart.
C14_MoveOrder ==
  NonEndingMove =>
    /\ StepNames(trace) = <<"timer.stop", "game.move", "move", "stateChange",
                            "waitingForMove", "timer.start">>
    /\ trace[2].time = trace[1].time
    /\ trace[2].player = lastOp.player /\ trace[2].move = lastOp.move
    /\ trace[3].player = lastOp.player /\ trace[3].move = lastOp.move
    /\ trace[5].player = GetNextPlayer(game)
    /\ trace[6].player = GetNextPlayer(game)
    /\ trace[1].pending = pre.moveTimer.pending
    /\ \A i \in 2..6 : ~trace[i].pending
    /\ moveTimer.pending

C14_Witness ==
  /\ NonEndingMove
  /\ pre.moveTimer.pending
  /\ trace[1].time = 1
  /\ trace[2].time = 1
  /\ GetNextPlayer(game) # lastOp.player

\* ---- C15 ------------------------------------------------------------------
HasMoveRecord == \E i \in 1..Len(history.events) : IsMoveRecord(history.events[i])

EndingOp ==
  /\ lastOp.op \in {"move", "onMoveTimeout"}
  /\ lastOp.result = "true"
  /\ GameIsEnded(game)

\* index of the last MoveRecord in events, 0 if there is none
LastMoveAt ==
  IF HasMoveRecord
    THEN CHOOSE i \in 1..Len(history.events) :
           /\ IsMoveRecord(history.events[i])
           /\ \A j \in (i + 1)..Len(history.events) : ~IsMoveRecord(history.events[j])
    ELSE 0

\* the history holds the game's current state after the last MoveRecord,
\* in events or as the pending snapshot
FinalStateLogged ==
  \/ history.next = <<GetFullState(game)>>
  \/ \E i \in (LastMoveAt + 1)..Len(history.events) :
        history.events[i] = Snapshot(GetFullState(game))

\* C16: after a move or timeout effect that ends the game the history holds
\* a snapshot of the final state after the last MoveRecord, in events or as
\* the pending snapshot.
C16_FinalStateRecorded == EndingOp => FinalStateLogged

\* ---- C17 ------------------------------------------------------------------
\* the last operation was a timer fire whose effect the game reports as no
\* change
NoChangeTimeout ==
  /\ lastOp.op = "onMoveTimeout"
  /\ lastOp.result = "false"

\* C17: a timer fire for which the game reports no change emits nothing,
\* leaves status, game and history as they were and does not restart the
\* timer; a fire happens only when one is pending, and once none is pending
\* in a started session only an applied move arms the timer again.
C17_NoChangeTimeout ==
  /\ NoChangeTimeout =>
        /\ StepNames(trace) = <<"game.onMoveTimeout">>
        /\ CoreRec = [pre EXCEPT !.moveTimer = TimerFired(pre.moveTimer)]
        /\ ~moveTimer.pending
        /\ emitCount.end = 0
  /\ lastOp.op = "onMoveTimeout" => pre.moveTimer.pending
  /\ (HasStarted(pre.status) /\ ~pre.moveTimer.pending /\ moveTimer.pending) =>
        lastOp.op = "move" /\ lastOp.result = "true"

C17_Witness ==
  /\ NoChangeTimeout
  /\ status = STARTED
  /\ HasMoveRecord
  /\ history.next # <<>>
  /\ ~moveTimer.pending

\* ---- C18 ------------------------------------------------------------------
MoveRecord(player, move) == [eventType |-> "move", player |-> player, move |-> move]

MoveRecords(events) == SelectSeq(events, IsMoveRecord)

IsPrefix(a, b) == Len(a) <= Len(b) /\ SubSeq(b, 1, Len(a)) = a

\* C18: events only grows at its end; an applied move appends the pending
\* snapshot, which is then no longer pending, and after it the MoveRecord of
\* that move, and no other operation adds a MoveRecord; getHistory(viewer)
\* returns one entry per event in the same order, a MoveRecord as it is and a
\* snapshot as the game's view of its full state for the viewer, and changes
\* nothing.
C18_HistoryLog ==
  /\ IsPrefix(pre.history.events, history.events)
  /\ (lastOp.op = "move" /\ lastOp.result = "true") =>
        /\ Len(history.events) = Len(pre.history.events) + 2
        /\ history.events[Len(pre.history.events) + 1] = Snapshot(pre.history.next[1])
        /\ history.events[Len(pre.history.events) + 2] =
             MoveRecord(lastOp.player, lastOp.move)
        /\ history.next # pre.history.next
  /\ ~(lastOp.op = "move" /\ lastOp.result = "true") =>
        MoveRecords(history.events) = MoveRecords(pre.history.events)
  /\ lastOp.op = "getHistory" =>
        /\ CoreUnchanged
        /\ Len(lastOp.ret) = Len(history.events)
        /\ \A i \in 1..Len(history.events) :
              IF IsMoveRecord(history.events[i])
                THEN lastOp.ret[i] = history.events[i]
                ELSE /\ lastOp.ret[i].eventType = "state"
                     /\ lastOp.ret[i].state =
                          GetStateView(history.events[i].fullState, lastOp.player)
                     /\ DOMAIN lastOp.ret[i] = {"eventType", "state"}

C18_Witness ==
  /\ lastOp.op = "getHistory"
  /\ lastOp.player = 2
  /\ Len(lastOp.ret) = 3
  /\ IsMoveRecord(lastOp.ret[2])
  /\ lastOp.ret[1].eventType = "state" /\ lastOp.ret[3].eventType = "state"
  /\ lastOp.ret[1].state # history.events[1].fullState

\* ---- C19 ------------------------------------------------------------------
\* C19: in every state status agrees with the game: STARTED implies the game
\* has not ended, ENDED or ERROR implies it has, and for a game of at least
\* one player status is other than NOT_STARTED exactly when
\* connectedPlayerCount = currentPlayerCount = player count.
C19_StatusAgreesWithGame ==
  /\ status = STARTED => ~GameIsEnded(game)
  /\ status \in Terminal => GameIsEnded(game)
  /\ GetPlayerCount(game) >= 1 =>
        ( HasStarted(status) <=>
            /\ connectedPlayerCount = currentPlayerCount
            /\ currentPlayerCount = GetPlayerCount(game) )

C19_Witness ==
  /\ status \in Terminal
  /\ GameIsEnded(game)
  /\ pre.status = STARTED
  /\ lastOp.op = "onMoveTimeout"
  /\ connectedPlayerCount = 2
  /\ currentPlayerCount = 2

\* ---- C20 ------------------------------------------------------------------
\* events holds a snapshot after its last MoveRecord
SnapshotAfterLastMove ==
  /\ HasMoveRecord
  /\ LastMoveAt < Len(history.events)

PendingIsCurrent ==
  /\ history.next = <<GetFullState(game)>>
  /\ \A i \in 1..Len(history.events) :
        IsSnapshot(history.events[i]) => history.events[i].fullState.ver < game.ver
  /\ \A viewer \in PlayerArgs :
        LET ret == GetHistoryResult(viewer)
            current == GetStateView(GetFullState(game), viewer)
        IN \A i \in 1..Len(history.events) :
             IsSnapshot(history.events[i]) => ret[i].state # current

====
